---- MODULE Spec2Model ----
(***************************************************************************)
(* Model of the two PLY-to-rotating-video scripts                          *)
(*   src/semgeoattn/render_ply_videos.py     (Open3D + OpenCV driver)      *)
(*   src/semgeoattn/render_videos_pyvista.py (PyVista driver)              *)
(*                                                                         *)
(* Spec      the batch driver of either script: directory scan, the        *)
(*           per-file try/except, loading, normalisation, the frame loop,  *)
(*           the video stream and the rendering context.                   *)
(* NormSpec  center_and_scale applied to bounded vertex lists.             *)
(*                                                                         *)
(* Python floats are modelled as exact rationals <<n, d>> in lowest terms. *)
(***************************************************************************)
EXTENDS Integers, Sequences, FiniteSets, TLC

\* ------------------------------------------------------------------ bounds
MaxFiles == 2       \* at most this many *.ply files in INPUT_DIR
MaxFps == 2         \* small frame rates tried besides the shipped FPS
MaxDuration == 1    \* small durations tried besides the shipped DURATION_SECONDS
MaxTriangles == 1   \* faces in a file: 0..MaxTriangles
MaxCoord == 2       \* vertex coordinates: 0..MaxCoord on each axis
MaxPoints == 2      \* vertices in a file: 0..MaxPoints

\* ------------------------------------------------------- program constants
FPS == 30
DURATION_SECONDS == 6
ROTATE_FACTOR == 3       \* the 3.0 of view_ctrl.rotate(angle_per_frame * 3.0, 0)
FULL_CIRCLE == 360

VARIABLES
    impl,              \* which script runs: "open3d" or "pyvista"
    fps,               \* module constant FPS of the run
    duration_seconds,  \* module constant DURATION_SECONDS of the run
    ply_files,         \* names matched by glob("*.ply")
    todo,              \* what the for loop over sorted(ply_files) has left
    cur,               \* ply_path of the current iteration (0: none)
    pc,                \* control point of the driver / of the current file
    ply,               \* content of the file read by the loader
    geometry,          \* geometry, geo_type, has_colors of main()
    i,                 \* loop variable of the frame loop
    angle_step,        \* PyVista: angle_step
    azimuth,           \* PyVista: plotter.camera.azimuth
    rotation,          \* Open3D: sum of the amounts passed to view_ctrl.rotate
    frames_written,    \* frames handed to the current video stream
    last_written,      \* index of the frame written last (-1: none)
    ctx_open,          \* files whose Visualizer window / Plotter is open
    stream_open,       \* files whose VideoWriter / movie is open
    finalize_calls,    \* per file: calls of video_writer.release / plotter.close
    finalized_frames,  \* per file: frames written when it was finalized (-1: never)
    attempts,          \* per file: times the loop body was entered
    outcome,           \* per file: "none", "finalized" or "errored"
    error,             \* exception in flight ("none" when there is none)
    summary,           \* the final "Done! Videos saved to:" lines were printed
    npc,               \* NormSpec: control point
    vertices,          \* NormSpec: the vertex list given to center_and_scale
    normalized         \* NormSpec: the vertex list center_and_scale returned

pipeVars == <<impl, fps, duration_seconds, ply_files, todo, cur, pc, ply, geometry,
              i, angle_step, azimuth, rotation, frames_written, last_written,
              ctx_open, stream_open, finalize_calls, finalized_frames, attempts,
              outcome, error, summary>>
normVars == <<npc, vertices, normalized>>
vars == <<pipeVars, normVars>>

\* ------------------------------------------------------- exact arithmetic
Abs(x) == IF x < 0 THEN 0 - x ELSE x

RECURSIVE GCD(_, _)
GCD(a, b) == IF b = 0 THEN a ELSE GCD(b, a % b)

\* the rational n/d in lowest terms with a positive denominator
\* (d = 0: the undefined value <<0, 0>>, which every operation propagates)
Rat(n, d) ==
    IF d = 0 THEN <<0, 0>>
    ELSE LET s == IF d < 0 THEN 0 - 1 ELSE 1
             g == GCD(Abs(n), Abs(d))
         IN  <<(s * n) \div g, (s * d) \div g>>

Int2Rat(n) == <<n, 1>>
RatAdd(x, y) == Rat(x[1] * y[2] + y[1] * x[2], x[2] * y[2])
RatSub(x, y) == Rat(x[1] * y[2] - y[1] * x[2], x[2] * y[2])
RatMul(x, y) == Rat(x[1] * y[1], x[2] * y[2])
RatDiv(x, y) == Rat(x[1] * y[2], x[2] * y[1])
RatLess(x, y) == x[1] * y[2] < y[1] * x[2]
RatLeq(x, y) == x[1] * y[2] <= y[1] * x[2]
RatNeg(x) == <<0 - x[1], x[2]>>
Zero == <<0, 1>>

RatMax(S) == CHOOSE x \in S : \A y \in S : RatLeq(y, x)
RatMin(S) == CHOOSE x \in S : \A y \in S : RatLeq(x, y)

\* ---------------------------------------------------------- configuration
\* TOTAL_FRAMES = FPS * DURATION_SECONDS
TOTAL_FRAMES == fps * duration_seconds

FpsValues == (0..MaxFps) \cup {FPS}
DurationValues == (0..MaxDuration) \cup {DURATION_SECONDS}

Files == 1..MaxFiles

\* ------------------------------------------------------------ Asset Loader
\* What the two Open3D readers see in one file.
PlyContents ==
    [mesh_colors : BOOLEAN, n_triangles : 0..MaxTriangles, pcd_colors : BOOLEAN]
NoPly == [mesh_colors |-> FALSE, n_triangles |-> 0 - 1, pcd_colors |-> FALSE]
NoGeometry == [obj |-> [object |-> "none"], geo_type |-> "none",
               has_colors |-> FALSE, normalized |-> FALSE]

\* o3d.io.read_triangle_mesh(filepath)
read_triangle_mesh(file) ==
    [object |-> "TriangleMesh", has_vertex_colors |-> file.mesh_colors,
     triangles |-> file.n_triangles, normals |-> FALSE, gray |-> FALSE]

\* o3d.io.read_point_cloud(filepath)
read_point_cloud(file) ==
    [object |-> "PointCloud", has_colors |-> file.pcd_colors, gray |-> FALSE]

\* mesh.compute_vertex_normals()
compute_vertex_normals(mesh) == [mesh EXCEPT !.normals = TRUE]

\* mesh.paint_uniform_color([0.7, 0.7, 0.7]): every vertex gets the colour
paint_uniform_color(mesh) == [mesh EXCEPT !.gray = TRUE, !.has_vertex_colors = TRUE]

\* faulty variant: a mesh with faces is painted gray even when the point cloud
\* has colours
load_ply_gray_first(file) ==
    LET mesh == read_triangle_mesh(file)
        pcd == read_point_cloud(file)
    IN  IF mesh.has_vertex_colors /\ mesh.triangles > 0
        THEN <<compute_vertex_normals(mesh), "mesh">>
        ELSE IF mesh.triangles > 0
        THEN <<paint_uniform_color(compute_vertex_normals(mesh)), "mesh">>
        ELSE <<pcd, "pointcloud">>

\* faulty variant: the last resort is painted gray as well
load_ply_paint_last(file) ==
    LET mesh == read_triangle_mesh(file)
        pcd == read_point_cloud(file)
    IN  IF mesh.has_vertex_colors /\ mesh.triangles > 0
        THEN <<compute_vertex_normals(mesh), "mesh">>
        ELSE IF pcd.has_colors
        THEN <<pcd, "pointcloud">>
        ELSE IF mesh.triangles > 0
        THEN <<paint_uniform_color(compute_vertex_normals(mesh)), "mesh">>
        ELSE <<[pcd EXCEPT !.gray = TRUE, !.has_colors = TRUE], "pointcloud">>

\* load_ply_with_colors(filepath): the pair (geometry, geo_type)
load_ply_with_colors(file) ==
    LET mesh == read_triangle_mesh(file)
        pcd == read_point_cloud(file)
    IN  IF mesh.has_vertex_colors /\ mesh.triangles > 0
        THEN <<compute_vertex_normals(mesh), "mesh">>
        ELSE IF pcd.has_colors
        THEN <<pcd, "pointcloud">>
        ELSE IF mesh.triangles > 0
        THEN <<paint_uniform_color(compute_vertex_normals(mesh)), "mesh">>
        ELSE <<pcd, "pointcloud">>

\* main(): has_colors of the loaded geometry, asked by geo_type
main_has_colors(obj, geo_type) ==
    IF geo_type = "mesh" THEN obj.has_vertex_colors ELSE obj.has_colors

\* -------------------------------------------------------------- Normalizer
Axes == 1..3
Points == [Axes -> 0..MaxCoord]
VertexLists == UNION {[1..n -> Points] : n \in 0..MaxPoints}

\* a vertex with integer coordinates as a vertex with rational coordinates
AsRational(p) == [a \in Axes |-> Int2Rat(p[a])]

\* geometry.get_axis_aligned_bounding_box(): min and max corner; Open3D gives
\* the box of an empty geometry both corners at the origin
get_axis_aligned_bounding_box(pts) ==
    IF pts = <<>>
    THEN [min_bound |-> [a \in Axes |-> Zero], max_bound |-> [a \in Axes |-> Zero]]
    ELSE [min_bound |-> [a \in Axes |-> RatMin({pts[k][a] : k \in DOMAIN pts})],
          max_bound |-> [a \in Axes |-> RatMax({pts[k][a] : k \in DOMAIN pts})]]

\* bbox.get_center()
get_center(bbox) ==
    [a \in Axes |-> RatDiv(RatAdd(bbox.min_bound[a], bbox.max_bound[a]), Int2Rat(2))]

\* bbox.get_extent()
get_extent(bbox) == [a \in Axes |-> RatSub(bbox.max_bound[a], bbox.min_bound[a])]

\* geometry.translate(t)
translate(pts, t) == [k \in DOMAIN pts |-> [a \in Axes |-> RatAdd(pts[k][a], t[a])]]

\* geometry.scale(s, center=[0, 0, 0])
scale(pts, s) == [k \in DOMAIN pts |-> [a \in Axes |-> RatMul(pts[k][a], s)]]

\* the target diameter 1.8
TargetDiameter == Rat(18, 10)

\* faulty variant: the geometry is moved by its minimum corner, not its centre
center_and_scale_min_corner(pts) ==
    LET bbox == get_axis_aligned_bounding_box(pts)
        moved == translate(pts, [a \in Axes |-> RatNeg(bbox.min_bound[a])])
        extent == get_extent(bbox)
        max_extent == RatMax({extent[a] : a \in Axes})
    IN  IF RatLess(Zero, max_extent)
        THEN scale(moved, RatDiv(TargetDiameter, max_extent))
        ELSE moved

\* center_and_scale(geometry), on the geometry's vertex list
center_and_scale(pts) ==
    LET bbox == get_axis_aligned_bounding_box(pts)
        center == get_center(bbox)
        moved == translate(pts, [a \in Axes |-> RatNeg(center[a])])
        extent == get_extent(bbox)
        max_extent == RatMax({extent[a] : a \in Axes})
    IN  IF RatLess(Zero, max_extent)
        THEN scale(moved, RatDiv(TargetDiameter, max_extent))
        ELSE moved

\* ------------------------------------------------------------ driver state
RECURSIVE sorted(_)
\* sorted(ply_files): the names in ascending order
sorted(S) ==
    IF S = {} THEN <<>>
    ELSE LET m == CHOOSE x \in S : \A y \in S : x <= y
         IN  <<m>> \o sorted(S \ {m})

\* PyVista: mesh.array_names of the file read by pv.read
ArrayNames == {<<>>, <<"RGB">>, <<"RGBA">>, <<"saliency">>}

\* for i in range(TOTAL_FRAMES): the loop has a next index
\* faulty variant: the loop stops one frame early
more_frames_short(k) == k < TOTAL_FRAMES - 1
more_frames(k) == k < TOTAL_FRAMES

\* the index range() hands out after k
\* faulty variant: every other index is skipped
next_index_skip(k) == k + 2
next_index(k) == k + 1

\* Open3D: angle_per_frame = 360.0 / TOTAL_FRAMES
angle_per_frame == RatDiv(Int2Rat(FULL_CIRCLE), Int2Rat(TOTAL_FRAMES))

\* Open3D: the amount of view_ctrl.rotate(angle_per_frame * 3.0, 0)
rotate_amount == RatMul(angle_per_frame, Int2Rat(ROTATE_FACTOR))

\* PyVista: plotter.camera.azimuth = i * angle_step
\* faulty variant: the sweep starts one step in
frame_azimuth_off_by_one(k, step) == RatMul(Int2Rat(k + 1), step)
frame_azimuth(k, step) == RatMul(Int2Rat(k), step)

\* where the except clause hands control: `continue` (Open3D), the end of the
\* loop body (PyVista)
\* faulty variant: the handler leaves the loop
after_except_abort == "exit"
after_except == "loop"

NoFileLocals ==
    /\ ply' = NoPly
    /\ geometry' = NoGeometry
    /\ i' = 0
    /\ angle_step' = Zero
    /\ azimuth' = Zero
    /\ rotation' = Zero
    /\ frames_written' = 0
    /\ last_written' = 0 - 1

config == <<impl, fps, duration_seconds, ply_files>>
frameVars == <<i, angle_step, azimuth, rotation, frames_written, last_written>>
resources == <<ctx_open, stream_open>>
ledger == <<finalize_calls, finalized_frames, attempts, outcome>>

Init ==
    /\ impl \in {"open3d", "pyvista"}
    /\ fps \in FpsValues
    /\ duration_seconds \in DurationValues
    /\ ply_files \in SUBSET Files
    /\ todo = <<>>
    /\ cur = 0
    /\ pc = "main"
    /\ ply = NoPly
    /\ geometry = NoGeometry
    /\ i = 0
    /\ angle_step = Zero
    /\ azimuth = Zero
    /\ rotation = Zero
    /\ frames_written = 0
    /\ last_written = 0 - 1
    /\ ctx_open = {}
    /\ stream_open = {}
    /\ finalize_calls = [f \in Files |-> 0]
    /\ finalized_frames = [f \in Files |-> 0 - 1]
    /\ attempts = [f \in Files |-> 0]
    /\ outcome = [f \in Files |-> "none"]
    /\ error = "none"
    /\ summary = FALSE
    /\ npc = "off"
    /\ vertices = <<>>
    /\ normalized = <<>>

\* ----------------------------------------------------------------- main()
\* main(): glob, the early return on an empty directory, sorted()
Main_Scan ==
    /\ pc = "main"
    /\ IF ply_files = {}
       THEN pc' = "exit" /\ todo' = <<>>
       ELSE pc' = "loop" /\ todo' = sorted(ply_files)
    /\ UNCHANGED <<config, cur, ply, geometry, frameVars, resources, ledger, error,
                   summary, normVars>>

\* for ply_path in sorted(ply_files): the next file; the try block is entered
For_Next ==
    /\ pc = "loop"
    /\ todo # <<>>
    /\ cur' = Head(todo)
    /\ todo' = Tail(todo)
    /\ attempts' = [attempts EXCEPT ![Head(todo)] = @ + 1]
    /\ pc' = "try"
    /\ UNCHANGED <<config, ply, geometry, frameVars, resources, finalize_calls,
                   finalized_frames, outcome, error, summary, normVars>>

\* the loop is exhausted: the final summary is printed and main() returns
Main_Summary ==
    /\ pc = "loop"
    /\ todo = <<>>
    /\ summary' = TRUE
    /\ pc' = "exit"
    /\ UNCHANGED <<config, todo, cur, ply, geometry, frameVars, resources, ledger,
                   error, normVars>>

\* any library call of the step about to run raises an Exception
Raise ==
    /\ \/ pc \in {"try", "loaded", "normalized", "window", "plotter"}
       \/ pc = "rendering" /\ more_frames(i)
    /\ error' = "Exception"
    /\ pc' = "except"
    /\ UNCHANGED <<config, todo, cur, ply, geometry, frameVars, resources, ledger,
                   summary, normVars>>

\* except Exception as e: the error is printed and the loop goes on. Nothing
\* here releases what the aborted call had opened; whether the interpreter's
\* finalizers reclaim the dropped objects is not decided by this code.
Except ==
    /\ pc = "except"
    /\ outcome' = [outcome EXCEPT ![cur] = "errored"]
    /\ error' = "none"
    /\ NoFileLocals
    /\ \E reclaimed \in BOOLEAN :
          /\ ctx_open' = IF reclaimed THEN ctx_open \ {cur} ELSE ctx_open
          /\ stream_open' = IF reclaimed THEN stream_open \ {cur} ELSE stream_open
    /\ pc' = after_except
    /\ UNCHANGED <<config, todo, cur, finalize_calls, finalized_frames, attempts,
                   summary, normVars>>

\* the call in the try block returned: the loop body ends
Return ==
    /\ pc = "finalized"
    /\ NoFileLocals
    /\ pc' = "loop"
    /\ UNCHANGED <<config, todo, cur, resources, ledger, error, summary, normVars>>

\* ------------------------------------------------ render_ply_videos.py
\* geometry, geo_type = load_ply_with_colors(...); has_colors
O3D_Load ==
    /\ impl = "open3d"
    /\ pc = "try"
    /\ \E file \in PlyContents :
          LET r == load_ply_with_colors(file)
          IN  /\ ply' = file
              /\ geometry' = [obj |-> r[1], geo_type |-> r[2],
                              has_colors |-> main_has_colors(r[1], r[2]),
                              normalized |-> FALSE]
    /\ pc' = "loaded"
    /\ UNCHANGED <<config, todo, cur, frameVars, resources, ledger, error, summary,
                   normVars>>

\* geometry = center_and_scale(geometry)
O3D_Normalize ==
    /\ impl = "open3d"
    /\ pc = "loaded"
    /\ geometry' = [geometry EXCEPT !.normalized = TRUE]
    /\ pc' = "normalized"
    /\ UNCHANGED <<config, todo, cur, ply, frameVars, resources, ledger, error, summary,
                   normVars>>

\* render_rotating_video: Visualizer, create_window, add_geometry, options, camera
O3D_CreateWindow ==
    /\ impl = "open3d"
    /\ pc = "normalized"
    /\ ctx_open' = ctx_open \cup {cur}
    /\ pc' = "window"
    /\ UNCHANGED <<config, todo, cur, ply, geometry, frameVars, stream_open, ledger, error,
                   summary, normVars>>

\* cv2.VideoWriter(output_path, ...); the frame loop is entered
O3D_OpenWriter ==
    /\ impl = "open3d"
    /\ pc = "window"
    /\ stream_open' = stream_open \cup {cur}
    /\ i' = 0
    /\ pc' = "rendering"
    /\ UNCHANGED <<config, todo, cur, ply, geometry, angle_step, azimuth, rotation,
                   frames_written, last_written, ctx_open, ledger, error, summary,
                   normVars>>

\* one pass of the frame loop: rotate, render, capture, video_writer.write
O3D_RenderFrame ==
    /\ impl = "open3d"
    /\ pc = "rendering"
    /\ more_frames(i)
    /\ rotation' = RatAdd(rotation, rotate_amount)
    /\ frames_written' = frames_written + 1
    /\ last_written' = i
    /\ i' = next_index(i)
    /\ UNCHANGED <<config, todo, cur, pc, ply, geometry, angle_step, azimuth,
                   resources, ledger, error, summary, normVars>>

\* video_writer.release(); vis.destroy_window(); "Saved"
O3D_Finalize ==
    /\ impl = "open3d"
    /\ pc = "rendering"
    /\ ~more_frames(i)
    /\ finalize_calls' = [finalize_calls EXCEPT ![cur] = @ + 1]
    /\ finalized_frames' = [finalized_frames EXCEPT ![cur] = frames_written]
    /\ stream_open' = stream_open \ {cur}
    /\ ctx_open' = ctx_open \ {cur}
    /\ outcome' = [outcome EXCEPT ![cur] = "finalized"]
    /\ pc' = "finalized"
    /\ UNCHANGED <<config, todo, cur, ply, geometry, frameVars, attempts, error,
                   summary, normVars>>

\* ---------------------------------------------- render_videos_pyvista.py
\* mesh = pv.read(ply_path); has_colors
PV_Load ==
    /\ impl = "pyvista"
    /\ pc = "try"
    /\ \E names \in ArrayNames :
          geometry' = [obj |-> [object |-> "PolyData", array_names |-> names],
                       geo_type |-> "polydata",
                       has_colors |-> \/ \E k \in DOMAIN names : names[k] = "RGB"
                                      \/ \E k \in DOMAIN names : names[k] = "RGBA"
                                      \/ Len(names) > 0,
                       normalized |-> FALSE]
    /\ pc' = "loaded"
    /\ UNCHANGED <<config, todo, cur, ply, frameVars, resources, ledger, error,
                   summary, normVars>>

\* pv.Plotter(off_screen=True, ...), set_background, add_mesh, add_light
PV_CreatePlotter ==
    /\ impl = "pyvista"
    /\ pc = "loaded"
    /\ ctx_open' = ctx_open \cup {cur}
    /\ pc' = "plotter"
    /\ UNCHANGED <<config, todo, cur, ply, geometry, frameVars, stream_open, ledger, error,
                   summary, normVars>>

\* plotter.reset_camera(); plotter.camera.zoom(1.3): the view is fitted to the
\* mesh, which is this script's normalisation step
PV_ResetCamera ==
    /\ impl = "pyvista"
    /\ pc = "plotter"
    /\ geometry' = [geometry EXCEPT !.normalized = TRUE]
    /\ pc' = "normalized"
    /\ UNCHANGED <<config, todo, cur, ply, frameVars, resources, ledger, error,
                   summary, normVars>>

\* plotter.open_movie(output_path, framerate=FPS, quality=8)
PV_OpenMovie ==
    /\ impl = "pyvista"
    /\ pc = "normalized"
    /\ stream_open' = stream_open \cup {cur}
    /\ pc' = "movie"
    /\ UNCHANGED <<config, todo, cur, ply, geometry, frameVars, ctx_open, ledger,
                   error, summary, normVars>>

\* angle_step = 360 / TOTAL_FRAMES: ZeroDivisionError when TOTAL_FRAMES is 0
PV_AngleStep ==
    /\ impl = "pyvista"
    /\ pc = "movie"
    /\ IF TOTAL_FRAMES = 0
       THEN /\ error' = "ZeroDivisionError"
            /\ pc' = "except"
            /\ UNCHANGED <<angle_step, i>>
       ELSE /\ angle_step' = RatDiv(Int2Rat(FULL_CIRCLE), Int2Rat(TOTAL_FRAMES))
            /\ i' = 0
            /\ pc' = "rendering"
            /\ UNCHANGED error
    /\ UNCHANGED <<config, todo, cur, ply, geometry, azimuth, rotation,
                   frames_written, last_written, resources, ledger, summary, normVars>>

\* one pass of the frame loop: camera.azimuth = i * angle_step; write_frame()
PV_WriteFrame ==
    /\ impl = "pyvista"
    /\ pc = "rendering"
    /\ more_frames(i)
    /\ azimuth' = frame_azimuth(i, angle_step)
    /\ frames_written' = frames_written + 1
    /\ last_written' = i
    /\ i' = next_index(i)
    /\ UNCHANGED <<config, todo, cur, pc, ply, geometry, angle_step, rotation,
                   resources, ledger, error, summary, normVars>>

\* plotter.close(): the movie is finalized and the plotter released; "Saved"
PV_Close ==
    /\ impl = "pyvista"
    /\ pc = "rendering"
    /\ ~more_frames(i)
    /\ finalize_calls' = [finalize_calls EXCEPT ![cur] = @ + 1]
    /\ finalized_frames' = [finalized_frames EXCEPT ![cur] = frames_written]
    /\ stream_open' = stream_open \ {cur}
    /\ ctx_open' = ctx_open \ {cur}
    /\ outcome' = [outcome EXCEPT ![cur] = "finalized"]
    /\ pc' = "finalized"
    /\ UNCHANGED <<config, todo, cur, ply, geometry, frameVars, attempts, error,
                   summary, normVars>>

Next ==
    \/ Main_Scan
    \/ For_Next
    \/ Main_Summary
    \/ Raise
    \/ Except
    \/ Return
    \/ O3D_Load
    \/ O3D_Normalize
    \/ O3D_CreateWindow
    \/ O3D_OpenWriter
    \/ O3D_RenderFrame
    \/ O3D_Finalize
    \/ PV_Load
    \/ PV_CreatePlotter
    \/ PV_ResetCamera
    \/ PV_OpenMovie
    \/ PV_AngleStep
    \/ PV_WriteFrame
    \/ PV_Close

Spec == Init /\ [][Next]_vars

\* the interpreter runs the script to its end: a step that can be taken is taken
FairSpec == Spec /\ WF_vars(Next)

\* ------------------------------------------- center_and_scale on its own
NormInit ==
    /\ impl = "open3d"
    /\ fps = FPS
    /\ duration_seconds = DURATION_SECONDS
    /\ ply_files = {}
    /\ todo = <<>>
    /\ cur = 0
    /\ pc = "off"
    /\ ply = NoPly
    /\ geometry = NoGeometry
    /\ i = 0
    /\ angle_step = Zero
    /\ azimuth = Zero
    /\ rotation = Zero
    /\ frames_written = 0
    /\ last_written = 0 - 1
    /\ ctx_open = {}
    /\ stream_open = {}
    /\ finalize_calls = [f \in Files |-> 0]
    /\ finalized_frames = [f \in Files |-> 0 - 1]
    /\ attempts = [f \in Files |-> 0]
    /\ outcome = [f \in Files |-> "none"]
    /\ error = "none"
    /\ summary = FALSE
    /\ npc = "input"
    /\ \E v \in VertexLists : vertices = [k \in DOMAIN v |-> AsRational(v[k])]
    /\ normalized = <<>>

\* geometry = center_and_scale(geometry)
N_CenterAndScale ==
    /\ npc = "input"
    /\ normalized' = center_and_scale(vertices)
    /\ npc' = "done"
    /\ UNCHANGED <<pipeVars, vertices>>

NormNext == N_CenterAndScale

NormSpec == NormInit /\ [][NormNext]_vars

\* ================================================================ claims
ShippedFrames == FPS * DURATION_SECONDS

LoaderReturned == impl = "open3d" /\ ply # NoPly
MeshColors == ply.mesh_colors
HasFaces == ply.n_triangles > 0
PcdColors == ply.pcd_colors

\* C1: whatever the mesh's colours, its faces and the point cloud's colours are,
\* the loader returns the coloured mesh first, else the coloured point cloud,
\* else the mesh painted gray, else the point cloud as it is.
C1_Precedence ==
    LoaderReturned =>
        LET o == geometry.obj
            t == geometry.geo_type
        IN  /\ (MeshColors /\ HasFaces) =>
                  (o.object = "TriangleMesh" /\ t = "mesh" /\ ~o.gray)
            /\ (~(MeshColors /\ HasFaces) /\ PcdColors) =>
                  (o.object = "PointCloud" /\ t = "pointcloud" /\ ~o.gray)
            /\ (~MeshColors /\ HasFaces /\ ~PcdColors) =>
                  (o.object = "TriangleMesh" /\ t = "mesh" /\ o.gray)
            /\ (~HasFaces /\ ~PcdColors) =>
                  (o.object = "PointCloud" /\ t = "pointcloud" /\ ~o.gray)

\* the tie-break case: faces without mesh colours, and a coloured point cloud
C1_Witness ==
    /\ LoaderReturned
    /\ pc = "loaded"
    /\ HasFaces /\ ~MeshColors /\ PcdColors
    /\ geometry.geo_type = "pointcloud"

NeitherColorsNorFaces == LoaderReturned /\ ~MeshColors /\ ~PcdColors /\ ~HasFaces

AttemptedOnce == \A f \in Files : attempts[f] = IF f \in ply_files THEN 1 ELSE 0

\* C3 as stated: whatever files are found and whichever fail, the run ends with
\* every file attempted exactly once and the final summary printed.
C3_AlwaysSummary == pc = "exit" => (AttemptedOnce /\ summary)

\* C3 as amended: no file is ever attempted twice, and every run ends with every
\* file attempted exactly once; it ends with the final summary printed exactly
\* when at least one file was found.
C3_AllAttempted ==
    /\ [](\A f \in Files : attempts[f] <= 1)
    /\ <>[](pc = "exit" /\ AttemptedOnce /\ (summary <=> ply_files # {}))

\* a run in which an earlier file failed and a later one was still rendered
C3_Witness ==
    /\ pc = "exit"
    /\ summary
    /\ \E f, g \in ply_files :
          f < g /\ outcome[f] = "errored" /\ outcome[g] = "finalized"

\* C4: a file's stream is finalized at most once, only with exactly
\* TOTAL_FRAMES frames written to it, and never for a file that failed.
C4_FinalizedOnceComplete ==
    /\ \A f \in Files :
          /\ finalize_calls[f] <= 1
          /\ finalize_calls[f] = 1 =>
                (finalized_frames[f] = TOTAL_FRAMES /\ outcome[f] = "finalized")
          /\ outcome[f] = "errored" => finalize_calls[f] = 0
    /\ pc = "except" => finalize_calls[cur] = 0

\* one file failed, another was finalized with all 180 frames
C4_Witness ==
    /\ TOTAL_FRAMES = ShippedFrames
    /\ \E f, g \in ply_files :
          /\ finalize_calls[f] = 1 /\ finalized_frames[f] = ShippedFrames
          /\ g # f /\ outcome[g] = "errored"

\* C5: when the driver turns to the next file or to the summary, no rendering
\* context and no video stream is open; never is more than one of either open.
C5_ReleasedBetweenFiles ==
    /\ pc \in {"loop", "exit"} => (ctx_open = {} /\ stream_open = {})
    /\ Cardinality(ctx_open) <= 1
    /\ Cardinality(stream_open) <= 1

\* C6: after the last frame the Open3D rotations add up to 360, and the PyVista
\* azimuths reach 360 with one further step.
C6_FullTurn ==
    (pc = "finalized" /\ TOTAL_FRAMES > 0) =>
        /\ impl = "open3d" => rotation = Int2Rat(FULL_CIRCLE)
        /\ impl = "pyvista" => RatAdd(azimuth, angle_step) = Int2Rat(FULL_CIRCLE)

\* C7, in a state: a rendered file got exactly F azimuths, and frame k's is
\* k * 360 / F, within [0, 360).
C7_State ==
    impl = "pyvista" =>
        /\ pc = "finalized" => frames_written = TOTAL_FRAMES
        /\ (pc \in {"rendering", "finalized"} /\ frames_written > 0) =>
              /\ frames_written = last_written + 1
              /\ azimuth = Rat(last_written * FULL_CIRCLE, TOTAL_FRAMES)
              /\ RatLeq(Zero, azimuth)
              /\ RatLess(azimuth, Int2Rat(FULL_CIRCLE))

\* C7, in a step: from one frame to the next the azimuth grows by 360 / F.
C7_Step ==
    (impl = "pyvista" /\ frames_written >= 1 /\ frames_written' = frames_written + 1) =>
        /\ RatLess(azimuth, azimuth')
        /\ RatSub(azimuth', azimuth) = Rat(FULL_CIRCLE, TOTAL_FRAMES)

\* C7: a file rendered by the PyVista script gets exactly F = FPS *
\* DURATION_SECONDS camera states, frame k at azimuth k * 360 / F: evenly spaced,
\* strictly increasing, all in [0, 360).
C7_EvenAzimuths == []C7_State /\ [][C7_Step]_vars

\* the shipped configuration rendered to its last frame, at azimuth 358
C7_Witness ==
    /\ impl = "pyvista"
    /\ pc = "finalized"
    /\ frames_written = ShippedFrames
    /\ azimuth = Int2Rat(358)

\* C8: with TOTAL_FRAMES = 0 nothing is rendered: no stream is opened, none is
\* finalized, the frame loop is not reached and no division by zero is evaluated.
C8_ZeroFramesRejected ==
    TOTAL_FRAMES = 0 =>
        /\ stream_open = {}
        /\ \A f \in Files : finalize_calls[f] = 0
        /\ pc # "rendering"
        /\ error # "ZeroDivisionError"

BoxOf(pts) == get_axis_aligned_bounding_box(pts)
MaxExtent(pts) == LET e == get_extent(BoxOf(pts)) IN RatMax({e[a] : a \in Axes})
Defined(pts) == \A k \in DOMAIN pts : \A a \in Axes : pts[k][a][2] # 0

\* C9: after center_and_scale the bounding box is centred at the origin; a
\* geometry of positive extent ends with maximum extent 1.8; one of zero extent
\* is only moved, and nothing is divided by zero.
C9_CenteredAndScaled ==
    npc = "done" =>
        /\ Defined(normalized)
        /\ get_center(BoxOf(normalized)) = [a \in Axes |-> Zero]
        /\ RatLess(Zero, MaxExtent(vertices)) =>
              MaxExtent(normalized) = Rat(9, 5)
        /\ MaxExtent(vertices) = Zero =>
              /\ Len(normalized) = Len(vertices)
              /\ \A k \in DOMAIN vertices : \A a \in Axes :
                    normalized[k][a] =
                        RatSub(vertices[k][a], get_center(BoxOf(vertices))[a])

\* two distinct vertices off the origin, normalised
C9_Witness ==
    /\ npc = "done"
    /\ Len(vertices) = 2
    /\ RatLess(Zero, MaxExtent(vertices))
    /\ get_center(BoxOf(vertices)) # [a \in Axes |-> Zero]

\* the state of the per-file state machine the control point stands for
Phase ==
    CASE pc = "try" -> "Idle"
      [] pc \in {"loaded", "plotter"} -> "Loaded"
      [] pc \in {"normalized", "window", "movie"} -> "Normalized"
      [] pc = "rendering" -> "Rendering"
      [] pc = "finalized" -> "Finalized"
      [] pc = "except" -> "Errored"
      [] OTHER -> "Driver"

PhaseOrder ==
    {<<"Driver", "Idle">>, <<"Idle", "Loaded">>, <<"Loaded", "Normalized">>,
     <<"Normalized", "Rendering">>, <<"Rendering", "Finalized">>,
     <<"Finalized", "Driver">>, <<"Errored", "Driver">>,
     <<"Idle", "Errored">>, <<"Loaded", "Errored">>, <<"Normalized", "Errored">>,
     <<"Rendering", "Errored">>}

C10_Step ==
    /\ Phase' # Phase => <<Phase, Phase'>> \in PhaseOrder
    /\ Phase' = "Rendering" => geometry'.normalized
    /\ (Phase' = "Rendering" /\ Phase # "Rendering") =>
          (frames_written' = 0 /\ i' = 0)
    /\ (Phase' # "Driver" /\ frames_written' # frames_written) =>
          /\ Phase = "Rendering" /\ Phase' = "Rendering"
          /\ frames_written' = frames_written + 1
          /\ last_written' = last_written + 1
          /\ last_written' = frames_written
    /\ (Phase' = "Finalized" /\ Phase # "Finalized") =>
          (frames_written = TOTAL_FRAMES /\ last_written = TOTAL_FRAMES - 1)
    /\ Phase' = "Errored" =>
          (cur' = cur /\ todo' = todo /\ outcome' = outcome)
    /\ Phase = "Errored" =>
          /\ pc' = "loop"
          /\ todo' = todo
          /\ outcome' = [outcome EXCEPT ![cur] = "errored"]

====
